---- MODULE Spec2Model ----
(***************************************************************************)
(* Model of runekit/game/x11/manager.py: X11GameManager (window registry,  *)
(* property access, atom cache, shared-memory pool, stop) and              *)
(* X11EventWorker (the loop of run, its dispatch and its handlers).        *)
(***************************************************************************)
EXTENDS Integers, Sequences, FiniteSets, TLC

(* ------------------------------------------------------------------ *)
(* Program constants                                                   *)
(* ------------------------------------------------------------------ *)
MAX_SHM == 10

NET_ACTIVE_WINDOW == "_NET_ACTIVE_WINDOW"

\* self.screen.root: the id of the root window
root == 0

\* xcffib.xproto.Atom: the predefined atoms of the X11 protocol the code names
Atom == [CARDINAL |-> 6, STRING |-> 31, WINDOW |-> 33, WM_NAME |-> 39,
         WM_CLASS |-> 67]

(* ------------------------------------------------------------------ *)
(* Bounds of the model                                                 *)
(* ------------------------------------------------------------------ *)
\* largest size a caller asks get_shm for
MaxSize == 3
\* most segments the callers hold checked out at one time
MaxOut == 2
\* most segments get_shm creates in one behaviour
MaxNew == 2
\* most events the worker polls in one behaviour
MaxEvents == 2
\* number of windows besides the root
MaxWin == 2

VARIABLES
    _shm,        \* X11GameManager._shm: the idle list, a sequence of (xid, shm)
    attached,    \* xids attached at the display server (xshm.Attach / Detach)
    ipc,         \* ids of the SysV segments that exist (SharedMemory / remove)
    next_id,     \* next fresh id of connection.generate_id and of the kernel
    created,     \* number of segments get_shm has created in this behaviour
    out,         \* the callers' state: segments returned by get_shm, not yet freed
    calls,       \* the last three calls of get_shm / free_shm, oldest first
    _instances,  \* X11GameManager._instances: the dict's items (wid, handle)
                 \* in insertion order
    handles,     \* the X11GameInstance objects ever constructed, by handle id
    _atom,       \* X11GameManager._atom: the cached atoms, name -> id
    active_win_id,  \* X11EventWorker.active_win_id
    last,        \* the last call of get_instances or event of the worker
    pc,          \* where X11EventWorker.run is: "Idle" at the top of the
                 \* loop, "Polling" past the interruption check, "Dispatching"
                 \* with an event in hand, "Iterating" inside the focus
                 \* handler's loop, "Stopped" once run has returned
    interrupted, \* event_thread.isInterruptionRequested()
    stop_pc,     \* where the owning context is in stop(): "running" before
                 \* the call, "waiting" in event_thread.wait(), "returned"
    cur_evt,     \* run's evt: the event poll_for_event returned last
    polled,      \* number of events polled so far
    since,       \* number of polls since the interruption was requested
    entry,       \* the entry of self.handlers run's for loop looks at next
    ran,         \* the handlers run so far, oldest first: the poll, the
                 \* handler, whether it raised, the handle it emitted to
    iter,        \* the iterator of the focus handler's loop over _instances
    pending,     \* the owning context's get_atom waiting for InternAtom
    interns,     \* the InternAtom requests sent, oldest first
    acalls       \* the get_atom calls that have returned, oldest first

shm_vars == <<_shm, attached, ipc, next_id, created, out, calls>>

wrk_vars == <<pc, interrupted, stop_pc, cur_evt, polled, since, entry, ran,
              iter>>

atm_vars == <<pending, interns, acalls>>

win_vars == <<_instances, handles, _atom, active_win_id, last, wrk_vars,
              atm_vars>>

vars == <<_shm, attached, ipc, next_id, created, out, calls,
          _instances, handles, _atom, active_win_id, last,
          pc, interrupted, stop_pc, cur_evt, polled, since, entry, ran, iter,
          pending, interns, acalls>>

(* ------------------------------------------------------------------ *)
(* Shared-memory pool                                                  *)
(* ------------------------------------------------------------------ *)
Sizes == 1..MaxSize

\* the tuple (xid, shm) of get_shm: shm is the SharedMemory object
Segment(xid, size) == <<xid, [id |-> xid, size |-> size]>>

\* a get_shm that returns the item and leaves it in the idle list
ListRemove_keep(seq, item) == seq

\* list.remove(item): drops the first element equal to item
ListRemove(seq, item) ==
    LET hits == {i \in 1..Len(seq) : seq[i] = item}
    IN  IF hits = {} THEN seq
        ELSE LET k == CHOOSE i \in hits : \A j \in hits : i <= j
             IN  SubSeq(seq, 1, k - 1) \o SubSeq(seq, k + 1, Len(seq))

\* a scan that asks for a strictly larger segment (> for >=)
FirstFit_strict(pool, size) ==
    LET fits == {i \in 1..Len(pool) : pool[i][2].size > size}
    IN  IF fits = {} THEN 0
        ELSE CHOOSE i \in fits : \A j \in fits : i <= j

\* a scan that takes the smallest segment that is large enough (best fit)
FirstFit_best(pool, size) ==
    LET fits == {i \in 1..Len(pool) : pool[i][2].size >= size}
    IN  IF fits = {} THEN 0
        ELSE CHOOSE i \in fits :
                 \A j \in fits : \/ pool[i][2].size < pool[j][2].size
                                 \/ (pool[i][2].size = pool[j][2].size /\ i <= j)

\* `for item in self._shm: if item[1].size >= size`: index of the first
\* idle segment that is large enough, 0 when there is none
FirstFit(pool, size) ==
    LET fits == {i \in 1..Len(pool) : pool[i][2].size >= size}
    IN  IF fits = {} THEN 0
        ELSE CHOOSE i \in fits : \A j \in fits : i <= j

\* an eviction step that lets the idle list grow one entry too long
RECURSIVE gc_shm_late(_)
gc_shm_late(pool) ==
    IF Len(pool) > MAX_SHM + 1
    THEN LET rest == gc_shm_late(Tail(pool))
         IN  [shm |-> rest.shm, evicted |-> <<Head(pool)>> \o rest.evicted]
    ELSE [shm |-> pool, evicted |-> <<>>]

\* an eviction step that pops the newest entry (pop() for pop(0))
RECURSIVE gc_shm_newest(_)
gc_shm_newest(pool) ==
    IF Len(pool) > MAX_SHM
    THEN LET rest == gc_shm_newest(SubSeq(pool, 1, Len(pool) - 1))
         IN  [shm |-> rest.shm,
              evicted |-> <<pool[Len(pool)]>> \o rest.evicted]
    ELSE [shm |-> pool, evicted |-> <<>>]

\* gc_shm: pops the front of the idle list while it is longer than MAX_SHM;
\* every popped segment is detached and removed
RECURSIVE gc_shm(_)
gc_shm(pool) ==
    IF Len(pool) > MAX_SHM
    THEN LET rest == gc_shm(Tail(pool))
         IN  [shm |-> rest.shm, evicted |-> <<Head(pool)>> \o rest.evicted]
    ELSE [shm |-> pool, evicted |-> <<>>]

Record(call) == IF Len(calls) < 3 THEN Append(calls, call)
                ELSE Append(Tail(calls), call)

\* get_shm(size), a segment of the idle list is large enough
get_shm_reuse(size) ==
    LET k == FirstFit(_shm, size)
    IN  /\ k > 0
        /\ _shm' = ListRemove(_shm, _shm[k])
        /\ out' = out \cup {_shm[k]}
        /\ calls' = Record([op |-> "get", size |-> size, seg |-> _shm[k],
                            created |-> FALSE])
        /\ UNCHANGED <<attached, ipc, next_id, created, win_vars>>

\* get_shm(size), no idle segment is large enough: a new one is created
get_shm_create(size) ==
    LET seg == Segment(next_id, size)
    IN  /\ created < MaxNew
        /\ FirstFit(_shm, size) = 0
        /\ ipc' = ipc \cup {seg[2].id}
        /\ attached' = attached \cup {seg[1]}
        /\ next_id' = next_id + 1
        /\ created' = created + 1
        /\ out' = out \cup {seg}
        /\ calls' = Record([op |-> "get", size |-> size, seg |-> seg,
                            created |-> TRUE])
        /\ UNCHANGED <<_shm, win_vars>>

get_shm(size) == get_shm_reuse(size) \/ get_shm_create(size)

\* free_shm(shm): append to the idle list, then gc_shm()
free_shm(seg) ==
    LET gc == gc_shm(Append(_shm, seg))
    IN  /\ _shm' = gc.shm
        /\ attached' = attached \ {gc.evicted[i][1] : i \in 1..Len(gc.evicted)}
        /\ ipc' = ipc \ {gc.evicted[i][2].id : i \in 1..Len(gc.evicted)}
        /\ out' = out \ {seg}
        /\ calls' = Record([op |-> "free", size |-> seg[2].size, seg |-> seg,
                            created |-> FALSE])
        /\ UNCHANGED <<next_id, created, win_vars>>

\* callers that hold at most MaxOut segments at a time
GetShm == \E size \in Sizes : Cardinality(out) < MaxOut /\ get_shm(size)

\* one producer that frees its segment before it asks for the next
GetShmSeq == \E size \in Sizes : out = {} /\ get_shm(size)

FreeShm == \E seg \in out : free_shm(seg)

\* A pool the program reaches from the empty one: MAX_SHM calls of get_shm
\* with nothing idle create segments 1..MAX_SHM, which are then freed in the
\* order they were created.  The oldest is larger than the others.
WarmSize(i) == IF i = 1 THEN 2 ELSE 1

WarmPool == [i \in 1..MAX_SHM |-> Segment(i, WarmSize(i))]

InitPool(pool) ==
    /\ _shm = pool
    /\ attached = {pool[i][1] : i \in 1..Len(pool)}
    /\ ipc = {pool[i][2].id : i \in 1..Len(pool)}
    /\ next_id = Len(pool) + 1
    /\ created = 0
    /\ out = {}
    /\ calls = <<>>

(* ------------------------------------------------------------------ *)
(* Text, properties and atoms                                          *)
(* ------------------------------------------------------------------ *)
\* Text is a sequence of characters; NUL is the character "\00".
NUL == "NUL"

\* the text "RuneScape" of visit's comparison, written with one letter
RuneScape == <<"R">>

\* s[:-1]
StripLast(s) == SubSeq(s, 1, Len(s) - 1)

\* index of the first sep in s, 0 when there is none
Find(s, sep) ==
    LET at == {i \in 1..Len(s) : s[i] = sep}
    IN  IF at = {} THEN 0 ELSE CHOOSE i \in at : \A j \in at : i <= j

\* str.split(sep): the pieces of s between the separators
RECURSIVE Split(_, _)
Split(s, sep) ==
    LET k == Find(s, sep)
    IN  IF k = 0 THEN <<s>>
        ELSE <<SubSeq(s, 1, k - 1)>> \o Split(SubSeq(s, k + 1, Len(s)), sep)

\* the reply of GetProperty for a property the window does not have
NoProperty == [type |-> 0, value |-> <<>>]

StringReply(text) == [type |-> Atom.STRING, value |-> text]

WindowReply(wid) == [type |-> Atom.WINDOW, value |-> <<wid>>]

\* the code points of the names the callers of get_atom pass:
\* "_NET_ACTIVE_WINDOW", "_NET_WM_PID", the predefined "WM_NAME" and
\* "WM_CLASS", and "U+00E9", the name of one letter outside ASCII
CodePoints(name) ==
    CASE name = NET_ACTIVE_WINDOW ->
             <<95, 78, 69, 84, 95, 65, 67, 84, 73, 86, 69, 95, 87, 73, 78,
               68, 79, 87>>
      [] name = "_NET_WM_PID" ->
             <<95, 78, 69, 84, 95, 87, 77, 95, 80, 73, 68>>
      [] name = "WM_NAME" -> <<87, 77, 95, 78, 65, 77, 69>>
      [] name = "WM_CLASS" -> <<87, 77, 95, 67, 76, 65, 83, 83>>
      [] name = "U+00E9" -> <<233>>

\* atom.encode("ascii"): the bytes of the name, UnicodeEncodeError for a
\* code point above 127
encode(name) ==
    LET cp == CodePoints(name)
    IN  IF \A i \in 1..Len(cp) : cp[i] < 128
        THEN [raised |-> FALSE, bytes |-> cp]
        ELSE [raised |-> TRUE, bytes |-> <<>>]

\* the names the server has interned so far, in the order of their ids:
\* the ids after the predefined atoms (1..68) go to them
ServerNames == <<CodePoints(NET_ACTIVE_WINDOW), CodePoints("_NET_WM_PID")>>

\* the server's InternAtom(only_if_exists=False, name): the id of the name
InternAtom(bytes) ==
    LET at == {i \in 1..Len(ServerNames) : ServerNames[i] = bytes}
    IN  IF at = {} THEN 68 + Len(ServerNames) + 1
        ELSE 68 + (CHOOSE i \in at : TRUE)

\* self._atom[atom] = out
Store(cache, key, id) ==
    [n \in DOMAIN cache \cup {key} |-> IF n = key THEN id ELSE cache[n]]

\* the argument of get_atom: an int or a str
PyInt(n) == [t |-> "int", v |-> n]

PyStr(name) == [t |-> "str", v |-> name]

\* a get_atom that asks the server every time and never reads the cache
get_atom_nocache(cache, atom) ==
    IF atom.t = "int"
    THEN [atom |-> atom.v, cache |-> cache, interned |-> FALSE,
          raised |-> FALSE]
    ELSE IF atom.v \in DOMAIN Atom
    THEN [atom |-> Atom[atom.v], cache |-> cache, interned |-> FALSE,
          raised |-> FALSE]
    ELSE LET key == encode(atom.v)
         IN  IF key.raised
             THEN [atom |-> 0, cache |-> cache, interned |-> FALSE,
                   raised |-> TRUE]
             ELSE [atom |-> InternAtom(key.bytes),
                   cache |-> Store(cache, key.bytes, InternAtom(key.bytes)),
                   interned |-> TRUE, raised |-> FALSE]

\* a get_atom that caches the predefined atoms as well
get_atom_cacheall(cache, atom) ==
    IF atom.t = "int"
    THEN [atom |-> atom.v, cache |-> cache, interned |-> FALSE,
          raised |-> FALSE]
    ELSE IF atom.v \in DOMAIN Atom
    THEN [atom |-> Atom[atom.v],
          cache |-> Store(cache, CodePoints(atom.v), Atom[atom.v]),
          interned |-> FALSE, raised |-> FALSE]
    ELSE LET key == encode(atom.v)
         IN  IF key.raised
             THEN [atom |-> 0, cache |-> cache, interned |-> FALSE,
                   raised |-> TRUE]
             ELSE IF key.bytes \in DOMAIN cache
             THEN [atom |-> cache[key.bytes], cache |-> cache,
                   interned |-> FALSE, raised |-> FALSE]
             ELSE [atom |-> InternAtom(key.bytes),
                   cache |-> Store(cache, key.bytes, InternAtom(key.bytes)),
                   interned |-> TRUE, raised |-> FALSE]

\* get_atom(atom): [atom: the id returned, cache: _atom after the call,
\* interned: whether an InternAtom request was sent, raised: whether the
\* call raised instead of returning]
get_atom(cache, atom) ==
    IF atom.t = "int"
    THEN [atom |-> atom.v, cache |-> cache, interned |-> FALSE,
          raised |-> FALSE]
    ELSE IF atom.v \in DOMAIN Atom
    THEN [atom |-> Atom[atom.v], cache |-> cache, interned |-> FALSE,
          raised |-> FALSE]
    ELSE LET key == encode(atom.v)
         IN  IF key.raised
             THEN [atom |-> 0, cache |-> cache, interned |-> FALSE,
                   raised |-> TRUE]
             ELSE IF key.bytes \in DOMAIN cache
             THEN [atom |-> cache[key.bytes], cache |-> cache,
                   interned |-> FALSE, raised |-> FALSE]
             ELSE [atom |-> InternAtom(key.bytes),
                   cache |-> Store(cache, key.bytes, InternAtom(key.bytes)),
                   interned |-> TRUE, raised |-> FALSE]

\* get_property(wid, name): reply is the server's reply to the GetProperty
\* request; [cache: _atom after the call, kind, val: the value returned,
\* by the reply's type, raised: get_atom raised, or struct.unpack("=I")
\* did for a value that is not one 32-bit word]
get_property(cache, name, reply) ==
    LET a == get_atom(cache, name)
    IN  IF a.raised
        THEN [cache |-> a.cache, kind |-> "raw", val |-> <<>>,
              raised |-> TRUE]
        ELSE IF reply.type = Atom.STRING
        THEN [cache |-> a.cache, kind |-> "str",
              val |-> StripLast(reply.value), raised |-> FALSE]
        ELSE IF reply.type \in {Atom.WINDOW, Atom.CARDINAL}
        THEN IF Len(reply.value) = 1
             THEN [cache |-> a.cache, kind |-> "int", val |-> reply.value[1],
                   raised |-> FALSE]
             ELSE [cache |-> a.cache, kind |-> "int", val |-> 0,
                   raised |-> TRUE]
        ELSE [cache |-> a.cache, kind |-> "raw", val |-> reply.value,
              raised |-> FALSE]

\* get_active_window: the root's _NET_ACTIVE_WINDOW
get_active_window(cache, reply) ==
    get_property(cache, PyStr(NET_ACTIVE_WINDOW), reply)

\* Python's truth value of what get_property returned
Truthy(v) == IF v.kind = "int" THEN v.val /= 0 ELSE Len(v.val) > 0

(* ------------------------------------------------------------------ *)
(* Window registry and discovery                                       *)
(* ------------------------------------------------------------------ *)
Windows == 1..MaxWin

WinIds == {root} \cup Windows

\* the WM_CLASS replies the windows of a tree give: no property, "",
\* "x\0RuneScape\0", "x\0x\0" and the single string "RuneScape\0"
ClassReplies ==
    {NoProperty,
     StringReply(<<>>),
     StringReply(<<"x", NUL>> \o RuneScape \o <<NUL>>),
     StringReply(<<"x", NUL, "x", NUL>>),
     StringReply(RuneScape \o <<NUL>>)}

RECURSIVE ReachesRoot(_, _, _)
ReachesRoot(parent, w, n) ==
    w = root \/ (n > 0 /\ ReachesRoot(parent, parent[w], n - 1))

\* the window trees over the windows P: every window has a parent and
\* reaches the root, every window and the root has a WM_CLASS reply
TreesOver(P) ==
    {[parent |-> p, class |-> c] :
        p \in {q \in [P -> {root} \cup P] :
                 \A w \in P : ReachesRoot(q, w, Cardinality(P))},
        c \in [{root} \cup P -> ClassReplies]}

RECURSIVE Ascending(_)
Ascending(S) ==
    IF S = {} THEN <<>>
    ELSE LET m == CHOOSE x \in S : \A y \in S : x <= y
         IN  <<m>> \o Ascending(S \ {m})

\* QueryTree(wid).reply().children
QueryTree(tree, wid) ==
    Ascending({c \in DOMAIN tree.parent : tree.parent[c] = wid})

\* X11GameInstance(self, wid, parent=self): the new handle
X11GameInstance(wid) == [wid |-> wid, is_focused |-> FALSE]

Registered(instances, wid) ==
    \E k \in 1..Len(instances) : instances[k][1] = wid

\* the handle self._instances[wid]
HandleOf(instances, wid) ==
    LET k == CHOOSE i \in 1..Len(instances) : instances[i][1] = wid
    IN  instances[k][2]

\* visit(wid) up to the QueryTree: st is [instances, handles, atom, raised,
\* visited]
VisitWindow(tree, wid, st) ==
    LET wm_class == get_property(st.atom, PyInt(Atom.WM_CLASS),
                                 tree.class[wid])
        parts    == Split(wm_class.val, NUL)
        seen     == [st EXCEPT !.visited = Append(st.visited, wid),
                               !.atom = wm_class.cache]
    IN  IF ~Truthy(wm_class) THEN seen
        ELSE IF wm_class.kind /= "str" \/ Len(parts) /= 2
        THEN [seen EXCEPT !.raised = TRUE]
        ELSE IF parts[2] = RuneScape /\ ~Registered(st.instances, wid)
        THEN [seen EXCEPT
                 !.handles = Append(st.handles, X11GameInstance(wid)),
                 !.instances = Append(st.instances,
                                      <<wid, Len(st.handles) + 1>>)]
        ELSE seen

\* visit: todo holds the windows still to visit, the next one first
RECURSIVE visit(_, _, _)
visit(tree, todo, st) ==
    IF todo = <<>> \/ st.raised THEN st
    ELSE LET after == VisitWindow(tree, Head(todo), st)
         IN  visit(tree, QueryTree(tree, Head(todo)) \o Tail(todo), after)

\* the WM_CLASS value names the application RuneScape: an instance name
\* and the class name "RuneScape", each closed by a NUL
IsTarget(reply) ==
    /\ reply.type = Atom.STRING
    /\ \E inst \in {<<>>, <<"x">>, RuneScape} :
           reply.value = inst \o <<NUL>> \o RuneScape \o <<NUL>>

Values(instances) == [k \in 1..Len(instances) |-> instances[k][2]]

NoCall == [op |-> "none", tick |-> 0, raised |-> FALSE, result |-> <<>>,
           windows |-> {}, targets |-> {}, visited |-> <<>>,
           was_empty |-> FALSE, matched |-> FALSE, prev |-> 0, read |-> 0,
           emitted |-> <<>>, interned |-> FALSE]

\* get_instances over the window tree the server holds during the call
get_instances(tree) ==
    LET st == visit(tree, <<root>>,
                    [instances |-> _instances, handles |-> handles,
                     atom |-> _atom, raised |-> FALSE, visited |-> <<>>])
    IN  /\ _instances' = st.instances
        /\ handles' = st.handles
        /\ _atom' = st.atom
        /\ last' = [NoCall EXCEPT
                       !.op = "get_instances",
                       !.tick = 1 - last.tick,
                       !.raised = st.raised,
                       !.result = IF st.raised THEN <<>>
                                  ELSE Values(st.instances),
                       !.windows = DOMAIN tree.class,
                       !.targets = {w \in DOMAIN tree.class :
                                       IsTarget(tree.class[w])},
                       !.visited = st.visited,
                       !.was_empty = (_instances = <<>>)]
        /\ UNCHANGED <<active_win_id, shm_vars, wrk_vars, atm_vars>>

\* every window tree over at most MaxWin windows
Trees == UNION {TreesOver(P) : P \in SUBSET Windows}

\* the trees whose windows are children of the root, each a RuneScape
\* window or one without WM_CLASS
FlatTrees ==
    {t \in Trees :
        /\ \A w \in DOMAIN t.parent : t.parent[w] = root
        /\ t.class[root] = NoProperty
        /\ \A w \in DOMAIN t.parent :
               t.class[w] = NoProperty \/ IsTarget(t.class[w])}

GetInstances == \E tree \in Trees : get_instances(tree)

GetInstancesFlat == \E tree \in FlatTrees : get_instances(tree)

(* ------------------------------------------------------------------ *)
(* Event worker: focus tracking                                        *)
(* ------------------------------------------------------------------ *)
\* a loop that notifies every handle, changed or not
RECURSIVE FocusLoop_all(_, _, _)
FocusLoop_all(items, hs, active_id) ==
    IF items = <<>> THEN [handles |-> hs, emitted |-> <<>>]
    ELSE LET id_    == Head(items)[1]
             h      == Head(items)[2]
             active == (active_id = id_)
             rest   == FocusLoop_all(Tail(items),
                           [hs EXCEPT ![h].is_focused = active], active_id)
         IN  [handles |-> rest.handles,
              emitted |-> <<<<h, active>>>> \o rest.emitted]

\* `for id_, instance in self.manager._instances.items()`: sets the flag
\* of every handle whose flag differs and emits focusChanged to it
RECURSIVE FocusLoop(_, _, _)
FocusLoop(items, hs, active_id) ==
    IF items = <<>> THEN [handles |-> hs, emitted |-> <<>>]
    ELSE LET id_    == Head(items)[1]
             h      == Head(items)[2]
             active == (active_id = id_)
         IN  IF active /= hs[h].is_focused
             THEN LET rest == FocusLoop(Tail(items),
                                  [hs EXCEPT ![h].is_focused = active],
                                  active_id)
                  IN  [handles |-> rest.handles,
                       emitted |-> <<<<h, active>>>> \o rest.emitted]
             ELSE FocusLoop(Tail(items), hs, active_id)

\* a handler without `if self.active_win_id == active_win_id: return`
on_property_change_always(evt, reply) ==
    LET a          == get_atom(_atom, PyStr(NET_ACTIVE_WINDOW))
        b          == get_active_window(a.cache, reply)
        active_id  == b.val
        loop       == FocusLoop(_instances, handles, active_id)
    IN  IF evt.atom = a.atom /\ b.raised
        THEN /\ _atom' = b.cache
             /\ last' = [NoCall EXCEPT
                            !.op = "property_change",
                            !.tick = 1 - last.tick,
                            !.matched = TRUE,
                            !.raised = TRUE,
                            !.prev = active_win_id,
                            !.read = active_win_id,
                            !.interned = a.interned]
             /\ UNCHANGED <<_instances, handles, active_win_id, shm_vars>>
        ELSE IF evt.atom = a.atom
        THEN /\ _atom' = b.cache
             /\ active_win_id' = active_id
             /\ handles' = loop.handles
             /\ last' = [NoCall EXCEPT
                            !.op = "property_change",
                            !.tick = 1 - last.tick,
                            !.matched = TRUE,
                            !.prev = active_win_id,
                            !.read = active_id,
                            !.interned = a.interned,
                            !.emitted = loop.emitted]
             /\ UNCHANGED <<_instances, shm_vars>>
        ELSE /\ _atom' = a.cache
             /\ last' = [NoCall EXCEPT
                            !.op = "property_change",
                            !.tick = 1 - last.tick,
                            !.prev = active_win_id,
                            !.read = active_win_id,
                            !.interned = a.interned]
             /\ UNCHANGED <<_instances, handles, active_win_id, shm_vars>>

\* on_property_change(evt); reply is the server's reply to the GetProperty
\* of get_active_window, should the handler read it
on_property_change(evt, reply) ==
    LET a          == get_atom(_atom, PyStr(NET_ACTIVE_WINDOW))
        b          == get_active_window(a.cache, reply)
        active_id  == b.val
        loop       == FocusLoop(_instances, handles, active_id)
    IN  IF evt.atom = a.atom /\ b.raised
        THEN /\ _atom' = b.cache
             /\ last' = [NoCall EXCEPT
                            !.op = "property_change",
                            !.tick = 1 - last.tick,
                            !.matched = TRUE,
                            !.raised = TRUE,
                            !.prev = active_win_id,
                            !.read = active_win_id,
                            !.interned = a.interned]
             /\ UNCHANGED <<_instances, handles, active_win_id, shm_vars>>
        ELSE IF evt.atom = a.atom
        THEN /\ _atom' = b.cache
             /\ IF active_win_id = active_id
                THEN UNCHANGED <<active_win_id, handles>>
                ELSE /\ active_win_id' = active_id
                     /\ handles' = loop.handles
             /\ last' = [NoCall EXCEPT
                            !.op = "property_change",
                            !.tick = 1 - last.tick,
                            !.matched = TRUE,
                            !.prev = active_win_id,
                            !.read = active_id,
                            !.interned = a.interned,
                            !.emitted = IF active_win_id = active_id
                                        THEN <<>> ELSE loop.emitted]
             /\ UNCHANGED <<_instances, shm_vars>>
        ELSE /\ _atom' = a.cache
             /\ last' = [NoCall EXCEPT
                            !.op = "property_change",
                            !.tick = 1 - last.tick,
                            !.prev = active_win_id,
                            !.read = active_win_id,
                            !.interned = a.interned]
             /\ UNCHANGED <<_instances, handles, active_win_id, shm_vars>>

\* the PropertyNotify events of the root window: of _NET_ACTIVE_WINDOW and
\* of another property
PropertyNotifyEvents ==
    {[atom |-> InternAtom(CodePoints(NET_ACTIVE_WINDOW))],
     [atom |-> Atom.WM_NAME]}

\* one turn of run's loop that polls a PropertyNotifyEvent
PropertyNotify ==
    \E evt \in PropertyNotifyEvents : \E w \in WinIds :
        /\ on_property_change(evt, WindowReply(w))
        /\ UNCHANGED <<wrk_vars, atm_vars>>

\* no event polled yet
NoEvent == [kind |-> "none", seq |-> 0, atom |-> 0, window |-> 0,
            event |-> 0]

\* no loop of the focus handler under way
NoIter == [pos |-> 0, size |-> 0, active |-> 0, emitted |-> <<>>]

\* no get_atom of the owning context waiting for its reply
NoPending == [name |-> "", key |-> <<>>, before |-> <<>>]

\* a constructor that leaves the first read of the active window to the
\* event thread
WorkerInit_lazy(cache) == cache

\* X11EventWorker.__init__, run by X11GameManager.__init__ before the event
\* thread starts: get_active_window() resolves _NET_ACTIVE_WINDOW; the
\* cache after it
WorkerInit(cache) ==
    get_active_window(cache, WindowReply(root)).cache

\* the InternAtom requests of the construction
InitInterns(cache) ==
    IF cache = WorkerInit(cache) THEN <<>>
    ELSE <<[ctx |-> "owner", key |-> CodePoints(NET_ACTIVE_WINDOW)]>>

\* the event thread has started run and is at the top of its loop; stop
\* and get_atom have not been called
InitWorkerVars ==
    /\ pc = "Idle"
    /\ interrupted = FALSE
    /\ stop_pc = "running"
    /\ cur_evt = NoEvent
    /\ polled = 0
    /\ since = 0
    /\ entry = 0
    /\ ran = <<>>
    /\ iter = NoIter
    /\ pending = NoPending
    /\ interns = InitInterns(<<>>)
    /\ acalls = <<>>

\* after X11GameManager.__init__: nothing registered, and the worker's
\* constructor has read the active window, which cached its atom
InitWin(active) ==
    /\ _instances = <<>>
    /\ handles = <<>>
    /\ _atom = WorkerInit(<<>>)
    /\ active_win_id = active
    /\ last = NoCall
    /\ InitWorkerVars

\* the manager and its worker: discovery and focus tracking
Init == InitPool(<<>>) /\ \E w \in WinIds : InitWin(w)

Next == GetInstancesFlat \/ PropertyNotify

Spec == Init /\ [][Next]_vars

\* discovery over every window tree
InitDiscover == InitPool(<<>>) /\ InitWin(root)

NextDiscover == GetInstances

SpecDiscover == InitDiscover /\ [][NextDiscover]_vars

\* the pool after construction
InitShm == InitPool(<<>>) /\ InitWin(root)

NextShm == GetShm \/ FreeShm

SpecShm == InitShm /\ [][NextShm]_vars

\* the pool once MAX_SHM segments are idle
InitShmFull == InitPool(WarmPool) /\ InitWin(root)

NextShmFull == GetShmSeq \/ FreeShm

SpecShmFull == InitShmFull /\ [][NextShmFull]_vars

(* ------------------------------------------------------------------ *)
(* Event worker: the loop of run and its dispatch                      *)
(* ------------------------------------------------------------------ *)
\* the class an xcffib.xproto event class derives from: the release events
\* are copies of the press events, every other class derives from Event
BaseClass(kind) ==
    CASE kind = "KeyReleaseEvent" -> "KeyPressEvent"
      [] kind = "ButtonReleaseEvent" -> "ButtonPressEvent"
      [] OTHER -> "Event"

\* a test that every event passes
isinstance_any(kind, wanted_type) == TRUE

\* isinstance(evt, wanted_type)
isinstance(kind, wanted_type) ==
    kind = wanted_type \/ BaseClass(kind) = wanted_type

\* a table with an entry for key releases, which are key presses too
handlers_overlap ==
    <<<<"PropertyNotifyEvent", "on_property_change">>,
      <<"ConfigureNotifyEvent", "on_configure_event">>,
      <<"KeyPressEvent", "on_input_event">>,
      <<"KeyReleaseEvent", "on_input_event">>,
      <<"ButtonPressEvent", "on_input_event">>>>

\* self.handlers, in the order of the dict's items
handlers ==
    <<<<"PropertyNotifyEvent", "on_property_change">>,
      <<"ConfigureNotifyEvent", "on_configure_event">>,
      <<"KeyPressEvent", "on_input_event">>,
      <<"ButtonPressEvent", "on_input_event">>>>

\* `for wanted_type, handler in self.handlers.items(): if isinstance(...)`:
\* the first entry at or after from that the event is an instance of, 0
\* when the loop runs out
NextEntry(kind, from) ==
    LET hits == {k \in from..Len(handlers) : isinstance(kind, handlers[k][1])}
    IN  IF hits = {} THEN 0 ELSE CHOOSE k \in hits : \A j \in hits : k <= j

\* an input handler that lets the KeyError of an unregistered window out
on_input_event_raise(e) ==
    IF Registered(_instances, e.event)
    THEN [to |-> HandleOf(_instances, e.event), raised |-> FALSE]
    ELSE [to |-> 0, raised |-> TRUE]

\* on_input_event(evt): input_signal.emit(evt) on the handle registered for
\* evt.event; the KeyError of an unregistered window is caught and logged.
\* [to: the handle emitted to, 0 for none, raised]
on_input_event(e) ==
    IF Registered(_instances, e.event)
    THEN [to |-> HandleOf(_instances, e.event), raised |-> FALSE]
    ELSE [to |-> 0, raised |-> FALSE]

\* on_configure_event(evt): config_signal.emit(evt) on the handle registered
\* for evt.window; the KeyError of an unregistered window is caught
on_configure_event(e) ==
    IF Registered(_instances, e.window)
    THEN [to |-> HandleOf(_instances, e.window), raised |-> FALSE]
    ELSE [to |-> 0, raised |-> FALSE]

\* a loop without the try/except: a handler's failure ends run
AfterHandler_propagate(raised) == IF raised THEN "Stopped" ELSE "Dispatching"

\* `try: handler(evt) except: self.logger.error(...)`: where run is after
\* the handler returned or raised: still in its for loop
AfterHandler(raised) == "Dispatching"

\* the events poll_for_event returns: property changes of the root,
\* configure events of the windows (one of them reported to the root), key
\* presses of the windows, and a key release, a button press and a motion
\* event
Events ==
    {[NoEvent EXCEPT !.kind = "PropertyNotifyEvent", !.atom = a] :
        a \in {InternAtom(CodePoints(NET_ACTIVE_WINDOW)), Atom.WM_NAME}}
    \cup {[NoEvent EXCEPT !.kind = "ConfigureNotifyEvent", !.event = w[1],
                          !.window = w[2]] :
            w \in {<<x, x>> : x \in Windows} \cup {<<root, 1>>}}
    \cup {[NoEvent EXCEPT !.kind = "KeyPressEvent", !.event = w] :
            w \in Windows}
    \cup {[NoEvent EXCEPT !.kind = k, !.event = 1] :
            k \in {"KeyReleaseEvent", "ButtonPressEvent"}}
    \cup {[NoEvent EXCEPT !.kind = "MotionNotifyEvent"]}

\* the replies to get_active_window's GetProperty: a window id, or a
\* WINDOW property of no or of two ids, which struct.unpack("=I") rejects
ActiveReplies ==
    {WindowReply(w) : w \in WinIds}
    \cup {[type |-> Atom.WINDOW, value |-> <<>>],
          [type |-> Atom.WINDOW, value |-> <<1, 2>>]}

\* a loop that never asks whether it was interrupted
CheckInterruption_never ==
    /\ pc = "Idle"
    /\ pc' = "Polling"
    /\ UNCHANGED <<interrupted, stop_pc, cur_evt, polled, since, entry, ran,
                   iter, _instances, handles, _atom, active_win_id, last,
                   atm_vars, shm_vars>>

\* `if current_thread.isInterruptionRequested(): return`
CheckInterruption ==
    /\ pc = "Idle"
    /\ pc' = IF interrupted THEN "Stopped" ELSE "Polling"
    /\ UNCHANGED <<interrupted, stop_pc, cur_evt, polled, since, entry, ran,
                   iter, _instances, handles, _atom, active_win_id, last,
                   atm_vars, shm_vars>>

\* poll_for_event() returned None: msleep(10), continue
PollNone ==
    /\ pc = "Polling"
    /\ pc' = "Idle"
    /\ since' = IF interrupted THEN since + 1 ELSE since
    /\ UNCHANGED <<interrupted, stop_pc, cur_evt, polled, entry, ran, iter,
                   _instances, handles, _atom, active_win_id, last,
                   atm_vars, shm_vars>>

\* poll_for_event() returned an event: the for loop over the table begins
PollEvent ==
    /\ pc = "Polling"
    /\ polled < MaxEvents
    /\ \E e \in Events : cur_evt' = [e EXCEPT !.seq = polled + 1]
    /\ polled' = polled + 1
    /\ since' = IF interrupted THEN since + 1 ELSE since
    /\ entry' = 1
    /\ pc' = "Dispatching"
    /\ UNCHANGED <<interrupted, stop_pc, ran, iter, _instances, handles,
                   _atom, active_win_id, last, atm_vars, shm_vars>>

\* the record of one handler run
Ran(k, result) ==
    Append(ran, [seq |-> cur_evt.seq, kind |-> cur_evt.kind, k |-> k,
                 handler |-> handlers[k][2], raised |-> result.raised,
                 to |-> result.to])

\* the for loop reaches an entry of on_property_change that matches
RunPropertyChange ==
    LET k == NextEntry(cur_evt.kind, entry)
    IN  /\ pc = "Dispatching"
        /\ k /= 0
        /\ handlers[k][2] = "on_property_change"
        /\ \E reply \in ActiveReplies : on_property_change(cur_evt, reply)
        /\ ran' = Ran(k, [raised |-> last'.raised, to |-> 0])
        /\ entry' = k + 1
        /\ pc' = AfterHandler(last'.raised)
        /\ UNCHANGED <<interrupted, stop_pc, cur_evt, polled, since, iter,
                       atm_vars>>

\* the for loop reaches an entry of on_input_event that matches
RunInputEvent ==
    LET k == NextEntry(cur_evt.kind, entry)
    IN  /\ pc = "Dispatching"
        /\ k /= 0
        /\ handlers[k][2] = "on_input_event"
        /\ ran' = Ran(k, on_input_event(cur_evt))
        /\ entry' = k + 1
        /\ pc' = AfterHandler(on_input_event(cur_evt).raised)
        /\ UNCHANGED <<interrupted, stop_pc, cur_evt, polled, since, iter,
                       _instances, handles, _atom, active_win_id, last,
                       atm_vars, shm_vars>>

\* the for loop reaches an entry of on_configure_event that matches
RunConfigureEvent ==
    LET k == NextEntry(cur_evt.kind, entry)
    IN  /\ pc = "Dispatching"
        /\ k /= 0
        /\ handlers[k][2] = "on_configure_event"
        /\ ran' = Ran(k, on_configure_event(cur_evt))
        /\ entry' = k + 1
        /\ pc' = AfterHandler(on_configure_event(cur_evt).raised)
        /\ UNCHANGED <<interrupted, stop_pc, cur_evt, polled, since, iter,
                       _instances, handles, _atom, active_win_id, last,
                       atm_vars, shm_vars>>

\* no entry is left that matches: the for loop ends, back to `while True`
DispatchDone ==
    /\ pc = "Dispatching"
    /\ NextEntry(cur_evt.kind, entry) = 0
    /\ pc' = "Idle"
    /\ entry' = 0
    /\ UNCHANGED <<interrupted, stop_pc, cur_evt, polled, since, ran, iter,
                   _instances, handles, _atom, active_win_id, last,
                   atm_vars, shm_vars>>

\* stop(): requestInterruption() and quit(), then wait()
RequestInterruption ==
    /\ stop_pc = "running"
    /\ interrupted' = TRUE
    /\ stop_pc' = "waiting"
    /\ UNCHANGED <<pc, cur_evt, polled, since, entry, ran, iter, _instances,
                   handles, _atom, active_win_id, last, atm_vars, shm_vars>>

\* event_thread.wait() returns once run has returned: the thread's event
\* loop, asked to quit, ends at once
WaitReturns ==
    /\ stop_pc = "waiting"
    /\ pc = "Stopped"
    /\ stop_pc' = "returned"
    /\ UNCHANGED <<pc, interrupted, cur_evt, polled, since, entry, ran, iter,
                   _instances, handles, _atom, active_win_id, last,
                   atm_vars, shm_vars>>

\* the registry after get_instances has found the windows P, each
\* a RuneScape window below the root, in one call
Discovered(P) ==
    /\ _instances = [k \in 1..Cardinality(P) |-> <<Ascending(P)[k], k>>]
    /\ handles = [k \in 1..Cardinality(P) |->
                     X11GameInstance(Ascending(P)[k])]

Worker ==
    \/ CheckInterruption
    \/ PollNone
    \/ PollEvent
    \/ RunPropertyChange
    \/ RunInputEvent
    \/ RunConfigureEvent
    \/ DispatchDone

\* the worker after discovery has registered the windows but the last,
\* which opened since
InitWorker ==
    /\ InitPool(<<>>)
    /\ _atom = WorkerInit(<<>>)
    /\ active_win_id = root
    /\ Discovered(Windows \ {MaxWin})
    /\ last = NoCall
    /\ InitWorkerVars

NextWorker ==
    \/ Worker
    \/ RequestInterruption
    \/ WaitReturns

SpecWorker == InitWorker /\ [][NextWorker]_vars

\* the event thread runs while it can, and the owning context's wait
\* returns when it can
SpecWorkerFair ==
    InitWorker /\ [][NextWorker]_vars /\ WF_vars(Worker) /\ WF_vars(WaitReturns)

(* ------------------------------------------------------------------ *)
(* Discovery while the worker handles a focus change                   *)
(* ------------------------------------------------------------------ *)
\* on_property_change gets as far as its for loop: the property is the
\* active window's, it was read, and it differs from active_win_id
EntersLoop(e, reply) ==
    LET a == get_atom(_atom, PyStr(NET_ACTIVE_WINDOW))
        b == get_active_window(a.cache, reply)
    IN  e.atom = a.atom /\ ~b.raised /\ b.val /= active_win_id

\* poll_for_event() returned a PropertyNotifyEvent of the root
PollPropertyNotify ==
    /\ pc = "Polling"
    /\ polled < MaxEvents
    /\ \E e \in PropertyNotifyEvents :
           cur_evt' = [NoEvent EXCEPT !.kind = "PropertyNotifyEvent",
                                      !.atom = e.atom, !.seq = polled + 1]
    /\ polled' = polled + 1
    /\ since' = IF interrupted THEN since + 1 ELSE since
    /\ entry' = 1
    /\ pc' = "Dispatching"
    /\ UNCHANGED <<interrupted, stop_pc, ran, iter, _instances, handles,
                   _atom, active_win_id, last, atm_vars, shm_vars>>

\* on_property_change returns or raises before its loop (lines 192-196)
FocusReturn ==
    LET k == NextEntry(cur_evt.kind, entry)
    IN  /\ pc = "Dispatching"
        /\ k /= 0
        /\ handlers[k][2] = "on_property_change"
        /\ \E reply \in ActiveReplies :
               /\ ~EntersLoop(cur_evt, reply)
               /\ on_property_change(cur_evt, reply)
        /\ ran' = Ran(k, [raised |-> last'.raised, to |-> 0])
        /\ entry' = k + 1
        /\ pc' = AfterHandler(last'.raised)
        /\ UNCHANGED <<interrupted, stop_pc, cur_evt, polled, since, iter,
                       atm_vars>>

\* on_property_change up to the start of its loop (lines 192-200): the new
\* active window is stored and the iterator over _instances.items() is
\* made; it remembers the size of the dict
FocusBegin ==
    LET k == NextEntry(cur_evt.kind, entry)
        a == get_atom(_atom, PyStr(NET_ACTIVE_WINDOW))
    IN  /\ pc = "Dispatching"
        /\ k /= 0
        /\ handlers[k][2] = "on_property_change"
        /\ \E reply \in ActiveReplies :
               LET b == get_active_window(a.cache, reply)
               IN  /\ EntersLoop(cur_evt, reply)
                   /\ _atom' = b.cache
                   /\ active_win_id' = b.val
                   /\ iter' = [pos |-> 1, size |-> Len(_instances),
                               active |-> b.val, emitted |-> <<>>]
                   /\ last' = [NoCall EXCEPT
                                  !.op = "property_change",
                                  !.tick = 1 - last.tick,
                                  !.matched = TRUE,
                                  !.prev = active_win_id,
                                  !.read = b.val,
                                  !.interned = a.interned]
        /\ entry' = k + 1
        /\ pc' = "Iterating"
        /\ UNCHANGED <<interrupted, stop_pc, cur_evt, polled, since, ran,
                       _instances, handles, atm_vars, shm_vars>>

\* one turn of `for id_, instance in self.manager._instances.items()`: the
\* iterator raises RuntimeError when the dict's size is no longer the one
\* it remembers, ends the loop after the last item, and otherwise yields
\* the next item, whose flag is set and notified if it differs
FocusNext ==
    /\ pc = "Iterating"
    /\ IF Len(_instances) /= iter.size
       THEN /\ ran' = Ran(entry - 1, [raised |-> TRUE, to |-> 0])
            /\ pc' = AfterHandler(TRUE)
            /\ iter' = NoIter
            /\ last' = [last EXCEPT !.raised = TRUE,
                                    !.emitted = iter.emitted]
            /\ UNCHANGED handles
       ELSE IF iter.pos > Len(_instances)
       THEN /\ ran' = Ran(entry - 1, [raised |-> FALSE, to |-> 0])
            /\ pc' = AfterHandler(FALSE)
            /\ iter' = NoIter
            /\ last' = [last EXCEPT !.emitted = iter.emitted]
            /\ UNCHANGED handles
       ELSE LET one == FocusLoop(<<_instances[iter.pos]>>, handles,
                                 iter.active)
            IN  /\ handles' = one.handles
                /\ iter' = [iter EXCEPT !.pos = iter.pos + 1,
                                        !.emitted = iter.emitted \o
                                                    one.emitted]
                /\ UNCHANGED <<ran, pc, last>>
    /\ UNCHANGED <<interrupted, stop_pc, cur_evt, polled, since, entry,
                   _instances, _atom, active_win_id, atm_vars, shm_vars>>

\* get_instances in the owning context, its inserts falling between two
\* steps of the event thread
OwnerGetInstances == stop_pc = "running" /\ GetInstancesFlat

InitRace == InitPool(<<>>) /\ \E w \in WinIds : InitWin(w)

NextRace ==
    \/ CheckInterruption
    \/ PollNone
    \/ PollPropertyNotify
    \/ FocusReturn
    \/ FocusBegin
    \/ FocusNext
    \/ DispatchDone
    \/ OwnerGetInstances

SpecRace == InitRace /\ [][NextRace]_vars

(* ------------------------------------------------------------------ *)
(* The atom cache under its two callers                                *)
(* ------------------------------------------------------------------ *)
\* what the owning context passes to get_atom: an atom id, the names of
\* predefined atoms, names the server has to intern, one of them not ASCII
AtomArgs ==
    {PyInt(Atom.WM_CLASS), PyStr("WM_NAME"), PyStr(NET_ACTIVE_WINDOW),
     PyStr("_NET_WM_PID"), PyStr("U+00E9")}

\* the get_atom calls that returned: the last two are kept; tick tells a
\* call from the one before it
Returned(call) ==
    LET c == [call EXCEPT !.tick = IF acalls = <<>> THEN 1
                                   ELSE 1 - acalls[Len(acalls)].tick]
    IN  IF Len(acalls) < 2 THEN Append(acalls, c)
        ELSE Append(Tail(acalls), c)

\* get_atom(arg) in the owning context, up to its return or, when the name
\* has to be interned, up to the InternAtom request (line 121), whose
\* reply the call then waits for
GetAtomCall(arg) ==
    LET r == get_atom(_atom, arg)
    IN  /\ stop_pc = "running"
        /\ pending = NoPending
        /\ IF r.interned
           THEN /\ pending' = [name |-> arg.v, key |-> encode(arg.v).bytes,
                                before |-> _atom]
                /\ interns' = Append(interns,
                                  [ctx |-> "owner",
                                   key |-> encode(arg.v).bytes])
                /\ UNCHANGED acalls
           ELSE /\ acalls' = Returned([arg |-> arg, atom |-> r.atom,
                                       interned |-> FALSE,
                                       raised |-> r.raised,
                                       before |-> _atom, tick |-> 0])
                /\ UNCHANGED <<pending, interns>>
        /\ _atom' = IF r.interned THEN _atom ELSE r.cache
        /\ UNCHANGED <<_instances, handles, active_win_id, last, wrk_vars,
                       shm_vars>>

\* the reply of InternAtom has come: the id is stored and returned
\* (lines 121-124)
GetAtomReply ==
    /\ pending /= NoPending
    /\ _atom' = Store(_atom, pending.key, InternAtom(pending.key))
    /\ acalls' = Returned([arg |-> PyStr(pending.name),
                           atom |-> InternAtom(pending.key),
                           interned |-> TRUE, raised |-> FALSE,
                           before |-> pending.before, tick |-> 0])
    /\ pending' = NoPending
    /\ UNCHANGED <<_instances, handles, active_win_id, last, wrk_vars,
                   interns, shm_vars>>

GetAtom == \E arg \in AtomArgs : GetAtomCall(arg)

\* the worker handles a PropertyNotifyEvent: its get_atom and its
\* get_active_window send the requests their cache misses ask for
WorkerPropertyNotify ==
    \E e \in PropertyNotifyEvents : \E w \in WinIds :
        /\ on_property_change(e, WindowReply(w))
        /\ interns' = IF get_atom(_atom, PyStr(NET_ACTIVE_WINDOW)).interned
                      THEN Append(interns,
                               [ctx |-> "worker",
                                key |-> CodePoints(NET_ACTIVE_WINDOW)])
                      ELSE interns
        /\ UNCHANGED <<wrk_vars, pending, acalls>>

InitAtom == InitPool(<<>>) /\ InitWin(root)

NextAtom == GetAtom \/ GetAtomReply \/ WorkerPropertyNotify

SpecAtom == InitAtom /\ [][NextAtom]_vars

(* ------------------------------------------------------------------ *)
(* Properties of the shared-memory pool                                *)
(* ------------------------------------------------------------------ *)
LastCall == calls[Len(calls)]

IsCall(op) == calls /= <<>> /\ LastCall.op = op

\* the step is a call of get_shm / free_shm
GetStep == calls' /= calls /\ calls'[Len(calls')].op = "get"

FreeStep == calls' /= calls /\ calls'[Len(calls')].op = "free"

Destroyed(id) == id \notin ipc

\* C1: after every call of get_shm and free_shm the idle list _shm holds at
\* most MAX_SHM segments.
C1_IdleBounded == Len(_shm) <= MAX_SHM

\* a free_shm that overflowed the list has returned: its eviction left
\* MAX_SHM idle segments
C1_Witness ==
    /\ IsCall("free")
    /\ Len(_shm) = MAX_SHM
    /\ \E id \in 1..(next_id - 1) : Destroyed(id)

\* get_shm(n) -> s, free_shm(s), get_shm(n), nothing in between
AcquireReleaseAcquire ==
    /\ Len(calls) = 3
    /\ calls[1].op = "get"
    /\ calls[2].op = "free"
    /\ calls[2].seg = calls[1].seg
    /\ calls[3].op = "get"
    /\ calls[3].size = calls[1].size

\* C2 (as claimed): get_shm(n) -> s, free_shm(s), get_shm(n) returns the
\* same segment s and creates no segment.
C2_SameSegment ==
    AcquireReleaseAcquire =>
        /\ calls[3].seg = calls[1].seg
        /\ ~calls[3].created

\* C2 (amended): get_shm(n) -> s, free_shm(s), get_shm(n) creates no segment
\* and returns a segment of size >= n; it returns s exactly when no other
\* idle segment has size >= n.
C2_ReuseNoAllocation ==
    AcquireReleaseAcquire =>
        /\ ~calls[3].created
        /\ calls[3].seg[2].size >= calls[3].size
        /\ (calls[3].seg = calls[1].seg) <=>
               (\A i \in 1..Len(_shm) : _shm[i][2].size < calls[3].size)

\* the pool was full, the first get_shm created s, free_shm(s) evicted the
\* oldest segment, and the second get_shm returned s
C2_Witness ==
    /\ AcquireReleaseAcquire
    /\ calls[1].created
    /\ calls[3].seg = calls[1].seg
    /\ Len(_shm) = MAX_SHM - 1

\* C3: the segments free_shm evicts are the ones idle longest: they are a
\* prefix of the idle list, whatever the sizes, and the others stay in the
\* order they were released in, the freed one last.
C3_FifoEviction ==
    [][FreeStep =>
        LET seg  == calls'[Len(calls')].seg
            list == Append(_shm, seg)
            gone == ipc \ ipc'
            k    == Cardinality(gone)
        IN  /\ k = (IF Len(list) > MAX_SHM THEN Len(list) - MAX_SHM ELSE 0)
            /\ gone = {list[i][2].id : i \in 1..k}
            /\ attached \ attached' = {list[i][1] : i \in 1..k}
            /\ _shm' = SubSeq(list, k + 1, Len(list))
            /\ \A i, j \in 1..Len(_shm) :
                   (i < j /\ Destroyed(_shm[j][2].id)') =>
                       Destroyed(_shm[i][2].id)'
      ]_vars

\* the oldest idle segment, the largest of the pool, has been evicted
\* while smaller segments released after it are still idle
C3_Witness ==
    /\ IsCall("free")
    /\ Destroyed(WarmPool[1][2].id)
    /\ \E i \in 1..Len(_shm) : _shm[i][2].size < WarmPool[1][2].size

\* C4: get_shm(n) is first-fit: it returns the idle segment of size >= n at
\* the lowest position, removes that entry alone and creates nothing; with
\* no such segment it creates one of size n and leaves the idle list as it
\* is.  The segment returned has size >= n.
C4_FirstFit ==
    [][GetStep =>
        LET c    == calls'[Len(calls')]
            fits == {i \in 1..Len(_shm) : _shm[i][2].size >= c.size}
        IN  /\ c.seg[2].size >= c.size
            /\ IF fits /= {}
               THEN /\ \E k \in fits :
                        /\ \A j \in fits : k <= j
                        /\ c.seg = _shm[k]
                        /\ _shm' = [i \in 1..(Len(_shm) - 1) |->
                                      IF i < k THEN _shm[i] ELSE _shm[i + 1]]
                    /\ ~c.created
                    /\ UNCHANGED <<ipc, attached, next_id>>
               ELSE /\ c.created
                    /\ c.seg[2].size = c.size
                    /\ _shm' = _shm
                    /\ c.seg[2].id \notin ipc
                    /\ c.seg[1] \notin attached
                    /\ ipc' = ipc \cup {c.seg[2].id}
                    /\ attached' = attached \cup {c.seg[1]}
      ]_vars

\* get_shm(n) has returned an idle segment larger than n although a smaller
\* one that is also large enough stays idle: the first fit, not the best
C4_Witness ==
    /\ IsCall("get")
    /\ ~LastCall.created
    /\ LastCall.seg[2].size > LastCall.size
    /\ \E i \in 1..Len(_shm) :
           /\ _shm[i][2].size >= LastCall.size
           /\ _shm[i][2].size < LastCall.seg[2].size

IsOut(id) == \E s \in out : s[1] = id

IdleCount(id) == Cardinality({i \in 1..Len(_shm) : _shm[i][1] = id})

\* checked out, idle (once) or destroyed, and no two of them
OneState(id) ==
    \/ IsOut(id) /\ IdleCount(id) = 0 /\ ~Destroyed(id) /\ id \in attached
    \/ ~IsOut(id) /\ IdleCount(id) = 1 /\ ~Destroyed(id) /\ id \in attached
    \/ ~IsOut(id) /\ IdleCount(id) = 0 /\ Destroyed(id) /\ id \notin attached

\* C5: with free_shm called only on checked-out segments, every created
\* segment is checked out, idle once, or destroyed, and never two of these;
\* get_shm returns no segment that is checked out or destroyed, and a
\* segment is destroyed only out of the idle list, never while checked out.
C5_Ownership ==
    [][/\ \A id \in 1..(next_id' - 1) : OneState(id)'
       /\ GetStep =>
              LET s == calls'[Len(calls')].seg
              IN  s \notin out /\ s[2].id \in ipc' /\ s \in out'
       /\ \A id \in ipc \ ipc' : IdleCount(id) = 1 /\ ~IsOut(id) /\ ~IsOut(id)'
      ]_vars

\* a segment is checked out while others are idle and one has been destroyed
C5_Witness ==
    /\ out /= {}
    /\ Len(_shm) > 0
    /\ \E id \in 1..(next_id - 1) : Destroyed(id)

(* ------------------------------------------------------------------ *)
(* Properties of discovery and of the registry                         *)
(* ------------------------------------------------------------------ *)
IsOp(op) == last.op = op

\* the step is a call of get_instances / an event handled by the worker
GetInstancesStep == last'.tick /= last.tick /\ last'.op = "get_instances"

PropertyStep == last'.tick /= last.tick /\ last'.op = "property_change"

Keys(instances) == {instances[k][1] : k \in 1..Len(instances)}

\* C6: called on an empty registry, get_instances returns one handle for
\* every window of the tree whose WM_CLASS names RuneScape and no other.
C6_ExactlyTargets ==
    (IsOp("get_instances") /\ last.was_empty) =>
        /\ ~last.raised
        /\ {handles[last.result[i]].wid : i \in 1..Len(last.result)}
               = last.targets
        /\ Len(last.result) = Cardinality(last.targets)

\* C7: the registry only grows: a registered window stays registered with
\* the handle it got, even when it has left the tree, and every call of
\* get_instances returns all the handles registered so far.
C7_RegistryGrows ==
    [][/\ \A k \in 1..Len(_instances) :
              /\ k <= Len(_instances')
              /\ _instances'[k] = _instances[k]
              /\ handles'[_instances[k][2]].wid = _instances[k][1]
       /\ GetInstancesStep =>
              /\ ~last'.raised
              /\ last'.result = Values(_instances')
              /\ \A k \in 1..Len(_instances) :
                     \E i \in 1..Len(last'.result) :
                         last'.result[i] = _instances[k][2]
      ]_vars

\* C8: no WM_CLASS value makes get_instances fail: the call visits every
\* window of the tree and returns.
C8_NeverRaises ==
    IsOp("get_instances") =>
        /\ ~last.raised
        /\ {last.visited[i] : i \in 1..Len(last.visited)} = last.windows

(* ------------------------------------------------------------------ *)
(* Properties of focus tracking                                        *)
(* ------------------------------------------------------------------ *)
Notified(notes) == {notes[i] : i \in 1..Len(notes)}

\* the worker has handled a change of the active window from A to B
FocusChanged == IsOp("property_change") /\ last.matched /\ last.read /= last.prev

C10_NoOp ==
    [][(PropertyStep /\ (~last'.matched \/ last'.read = active_win_id)) =>
           /\ last'.emitted = <<>>
           /\ UNCHANGED <<handles, active_win_id, _instances>>
      ]_vars

\* the active window is read and is the one the worker knows, while its
\* handle, registered since, has its flag unset: nothing is emitted
C10_Witness ==
    /\ IsOp("property_change")
    /\ last.matched
    /\ last.read = last.prev
    /\ \E k \in 1..Len(_instances) :
           /\ _instances[k][1] = active_win_id
           /\ ~handles[_instances[k][2]].is_focused

(* ------------------------------------------------------------------ *)
(* Properties of the worker's loop and dispatch                        *)
(* ------------------------------------------------------------------ *)
\* the step runs a handler; the record of the run is the last of ran'
HandlerStep == ran' /= ran

\* the window an input or configure handler looks up: evt.event for
\* on_input_event, evt.window for on_configure_event
LookupKey(handler) ==
    IF handler = "on_input_event" THEN cur_evt.event ELSE cur_evt.window

\* C11: a key, button or configure event of a window that is not
\* registered is dropped: nothing is emitted, the registry, the flags and
\* active_win_id stay, the handler does not raise and run goes on; for a
\* registered window the event goes to the handle of evt.event (input) or
\* evt.window (configure), and no state changes either.
C11_ForwardOrDrop ==
    [][(HandlerStep /\ ran'[Len(ran')].handler /= "on_property_change") =>
        LET r   == ran'[Len(ran')]
            key == LookupKey(r.handler)
        IN  /\ ~r.raised
            /\ r.to = (IF Registered(_instances, key)
                       THEN HandleOf(_instances, key) ELSE 0)
            /\ r.to /= 0 => handles[r.to].wid = key
            /\ pc' = "Dispatching"
            /\ NextEntry(cur_evt.kind, entry') = 0
            /\ UNCHANGED <<_instances, handles, active_win_id>>
      ]_vars

\* an input event of an unregistered window was dropped, and the next
\* event, a configure event sent to the root for a registered window, went
\* to that window's handle; the worker is idle again
C11_Witness ==
    /\ pc = "Idle"
    /\ Len(ran) = 2
    /\ ran[1].handler = "on_input_event"
    /\ ran[1].to = 0
    /\ ran[2].handler = "on_configure_event"
    /\ ran[2].to /= 0
    /\ cur_evt.event /= cur_evt.window

\* C12: whatever a handler does, return or raise, run stays in its loop:
\* from Dispatching the worker goes on dispatching or becomes idle, and it
\* stops only at the top of the loop with the interruption requested.
C12_HandlerFaultCaught ==
    [][/\ HandlerStep => pc' = "Dispatching"
       /\ pc = "Dispatching" => pc' \in {"Dispatching", "Idle"}
       /\ (pc' = "Stopped" /\ pc /= "Stopped") =>
              (pc = "Idle" /\ interrupted)
      ]_vars

\* a handler raised for one event (the active-window property could not be
\* unpacked) and the worker has run a handler for a later event
C12_Witness ==
    \E i, j \in 1..Len(ran) :
        /\ ran[i].raised
        /\ ran[j].seq > ran[i].seq
        /\ ~ran[j].raised

\* C13: once stop() has requested the interruption the worker polls at
\* most once more, then run returns, and the wait of stop() returns.
C13_PromptStop ==
    /\ [](since <= 1)
    /\ [](pc = "Stopped" => interrupted)
    /\ (interrupted ~> pc = "Stopped")
    /\ (stop_pc = "waiting" ~> stop_pc = "returned")

\* stop() has returned; the request came after the worker's check, so one
\* more poll was made, and more events could have been polled
C13_Witness ==
    /\ stop_pc = "returned"
    /\ pc = "Stopped"
    /\ since = 1
    /\ polled < MaxEvents

\* C14: the events forwarded to one handle are forwarded in the order they
\* were polled, and no polled event is forwarded twice.
C14_PollOrder ==
    \A i, j \in 1..Len(ran) :
        (i < j /\ ran[i].to /= 0 /\ ran[j].to /= 0) =>
            /\ ran[i].seq /= ran[j].seq
            /\ ran[i].to = ran[j].to => ran[i].seq < ran[j].seq

\* one handle got an input event and then a configure event
C14_Witness ==
    /\ Len(ran) = 2
    /\ ran[1].to /= 0
    /\ ran[1].to = ran[2].to
    /\ ran[1].handler = "on_input_event"
    /\ ran[2].handler = "on_configure_event"
    /\ ran[1].seq < ran[2].seq

\* the runs of handlers for the poll seq
RunsOf(seq) == {i \in 1..Len(ran) : ran[i].seq = seq}

\* the events of the fixed table: an instance of exactly one entry's class
TableKind(kind) ==
    CASE kind \in {"PropertyNotifyEvent"} -> 1
      [] kind \in {"ConfigureNotifyEvent"} -> 2
      [] kind \in {"KeyPressEvent", "KeyReleaseEvent"} -> 3
      [] kind \in {"ButtonPressEvent", "ButtonReleaseEvent"} -> 4
      [] OTHER -> 0

\* C17: a polled event runs at most one handler, the one of the first
\* table entry the event is an instance of; an event that is an instance of
\* no entry runs none.  Once the for loop is over, an event of the table
\* has run exactly one.
C17_OneHandler ==
    /\ \A i, j \in 1..Len(ran) : i /= j => ran[i].seq /= ran[j].seq
    /\ \A i \in 1..Len(ran) :
           /\ ran[i].k = TableKind(ran[i].kind)
           /\ ran[i].k /= 0
    /\ (pc /= "Dispatching" /\ cur_evt /= NoEvent) =>
           Cardinality(RunsOf(cur_evt.seq)) =
               (IF TableKind(cur_evt.kind) = 0 THEN 0 ELSE 1)

\* a motion event ran no handler, and a key release, an instance of
\* KeyPressEvent, ran on_input_event once
C17_Witness ==
    /\ pc = "Idle"
    /\ polled = 2
    /\ Len(ran) = 1
    /\ ran[1].seq = 2
    /\ ran[1].kind = "KeyReleaseEvent"
    /\ ran[1].handler = "on_input_event"

(* ------------------------------------------------------------------ *)
(* Properties of discovery running beside the worker                   *)
(* ------------------------------------------------------------------ *)
\* C15: an insert of get_instances never tears the focus handler's loop:
\* when the handler of a change to window B is over, every handle that was
\* registered when its loop began has its flag set exactly if it is B's.
C15_NoTear ==
    [][(pc = "Iterating" /\ pc' /= "Iterating") =>
           \A k \in 1..iter.size :
               handles'[_instances[k][2]].is_focused =
                   (_instances[k][1] = iter.active)
      ]_vars

\* the handles whose flag is set
Focused ==
    {k \in 1..Len(_instances) : handles[_instances[k][2]].is_focused}

\* C20: between two events (the worker is at the top of its loop or
\* polling), with get_instances running beside the worker, at most one
\* registered handle has its flag set, and that handle is the one of
\* active_win_id.
C20_SingleFocus ==
    pc \in {"Idle", "Polling"} =>
        /\ Cardinality(Focused) <= 1
        /\ \A k \in Focused : _instances[k][1] = active_win_id

(* ------------------------------------------------------------------ *)
(* Properties of the atom cache                                        *)
(* ------------------------------------------------------------------ *)
\* the argument is a name get_atom looks up in its cache
IsDynamic(arg) == arg.t = "str" /\ arg.v \notin DOMAIN Atom

\* the last two calls of get_atom that returned had the same name, one
\* that is neither an int nor a predefined atom
TwoCalls ==
    /\ Len(acalls) = 2
    /\ acalls[1].arg = acalls[2].arg
    /\ IsDynamic(acalls[1].arg)

\* the second call returns what the first returned, the first sent one
\* InternAtom exactly if the name was not cached, the second sent none
Memoized ==
    /\ ~acalls[1].raised
    /\ ~acalls[2].raised
    /\ acalls[1].atom = acalls[2].atom
    /\ acalls[1].interned <=>
           (encode(acalls[1].arg.v).bytes \notin DOMAIN acalls[1].before)
    /\ ~acalls[2].interned

C18_Bypass ==
    [][(acalls' /= acalls /\ ~IsDynamic(acalls'[Len(acalls')].arg)) =>
        LET c == acalls'[Len(acalls')]
        IN  /\ c.atom = (IF c.arg.t = "int" THEN c.arg.v ELSE Atom[c.arg.v])
            /\ ~c.interned
            /\ ~c.raised
            /\ UNCHANGED <<_atom, interns, pending>>
      ]_vars

\* with two names cached, get_atom has returned the predefined WM_NAME
\* after it returned an int unchanged
C18_Witness ==
    /\ Len(acalls) = 2
    /\ acalls[1].arg = PyInt(Atom.WM_CLASS)
    /\ acalls[1].atom = Atom.WM_CLASS
    /\ acalls[2].arg = PyStr("WM_NAME")
    /\ acalls[2].atom = Atom.WM_NAME
    /\ CodePoints("_NET_WM_PID") \in DOMAIN _atom

\* C19: over the manager's life, with the owning context and the worker
\* calling get_atom in any interleaving, no name is interned twice and no
\* InternAtom request comes from the worker.
C19_OneInternPerName ==
    /\ \A i, j \in 1..Len(interns) :
           i /= j => interns[i].key /= interns[j].key
    /\ \A i \in 1..Len(interns) : interns[i].ctx = "owner"

\* the worker has handled a change of the active-window property while a
\* get_atom of the owning context was waiting for its InternAtom reply
C19_Witness ==
    /\ IsOp("property_change")
    /\ last.matched
    /\ pending /= NoPending
    /\ Len(interns) = 2

====
